---- MODULE Spec2Model ----
(***************************************************************************)
(* State-machine model of app.py: the four-step survey wizard, its         *)
(* per-category validation and normalisation, the sqlite response store    *)
(* and the admin gate.                                                     *)
(*                                                                         *)
(* Strings are TLA+ strings; Python's str methods (strip, lower, replace,  *)
(* join) are computed character by character.  Python's None is the        *)
(* sentinel None, which is no option label of any widget.  The en dash of  *)
(* some option labels is written "-".                                      *)
(***************************************************************************)
EXTENDS Integers, Sequences, FiniteSets, TLC

(***************************************************************************)
(* Bounds of the model.                                                    *)
(***************************************************************************)
MaxRows == 1
MaxCommits == 2
MaxClock == 1
MaxBlank == 2

(***************************************************************************)
(* Python values and str methods.                                          *)
(***************************************************************************)
None == "<None>"

\* `v or d` for v a str or None
OrElse(v, d) == IF v = None \/ v = "" THEN d ELSE v

\* bool(v) for v a str or None, as in `if not f.get(k)`
Truthy(v) == v # None /\ v # ""

IsSpace(c) == c \in {" ", "\t", "\n", "\r"}

RECURSIVE LStrip(_)
LStrip(s) ==
  IF Len(s) = 0 THEN s
  ELSE IF IsSpace(SubSeq(s, 1, 1)) THEN LStrip(SubSeq(s, 2, Len(s)))
  ELSE s

RECURSIVE RStrip(_)
RStrip(s) ==
  IF Len(s) = 0 THEN s
  ELSE IF IsSpace(SubSeq(s, Len(s), Len(s))) THEN RStrip(SubSeq(s, 1, Len(s) - 1))
  ELSE s

\* str.strip()
Strip(s) == RStrip(LStrip(s))

\* the lower-case letter of each upper-case letter
LowerMap ==
  [ A |-> "a", B |-> "b", C |-> "c", D |-> "d", E |-> "e", F |-> "f", G |-> "g",
    H |-> "h", I |-> "i", J |-> "j", K |-> "k", L |-> "l", M |-> "m", N |-> "n",
    O |-> "o", P |-> "p", Q |-> "q", R |-> "r", S |-> "s", T |-> "t", U |-> "u",
    V |-> "v", W |-> "w", X |-> "x", Y |-> "y", Z |-> "z" ]

LowerChar(c) == IF c \in DOMAIN LowerMap THEN LowerMap[c] ELSE c

RECURSIVE Lower(_)
\* str.lower()
Lower(s) ==
  IF Len(s) = 0 THEN s
  ELSE LowerChar(SubSeq(s, 1, 1)) \o Lower(SubSeq(s, 2, Len(s)))

RECURSIVE Replace(_, _, _)
\* str.replace(old, new) for a non-empty old: every non-overlapping
\* occurrence, scanning from the left
Replace(s, old, new) ==
  IF Len(s) < Len(old) THEN s
  ELSE IF SubSeq(s, 1, Len(old)) = old
       THEN new \o Replace(SubSeq(s, Len(old) + 1, Len(s)), old, new)
       ELSE SubSeq(s, 1, 1) \o Replace(SubSeq(s, 2, Len(s)), old, new)

RECURSIVE Join(_, _)
\* sep.join(values)
Join(sep, values) ==
  IF Len(values) = 0 THEN ""
  ELSE IF Len(values) = 1 THEN values[1]
  ELSE values[1] \o sep \o Join(sep, Tail(values))

\* mutant: an empty selection is stored as a placeholder
multiselect_to_text_Placeholder(values) ==
  IF Len(values) > 0 THEN Join(", ", values) ELSE "none"

multiselect_to_text(values) == IF Len(values) > 0 THEN Join(", ", values) ELSE ""

(***************************************************************************)
(* Config and storage schema.                                              *)
(***************************************************************************)
ADMIN_USERNAME == "givegoagroup9"
ADMIN_PASSWORD == "987654321"

ALL_COLUMNS ==
  << "timestamp", "respondent_type", "zone", "zone_other_text", "time_in_area",
     "age_group",
     "length_of_stay", "places_visited", "aware_water_stress", "showers_per_day",
     "drinking_water", "tourism_increases_water_demand", "perceived_crowding",
     "crowding_reduces_enjoyment", "beach_cleanliness",
     "tourism_affects_water_availability", "peak_season_shortages_local",
     "tanker_dependency", "water_trend_years", "benefits_shared_fairly",
     "peak_season_shortages_staff", "main_water_source", "water_saving_measures",
     "tourism_growth_increases_pressure",
     "peak_season_pressure", "facilities_stressed", "infra_handles_future_growth",
     "biggest_issue", "should_define_limits", "support_stricter_water_rules",
     "priority_suggestion" >>

Range(seq) == {seq[i] : i \in 1..Len(seq)}

Columns == Range(ALL_COLUMNS)

\* the columns CREATE_TABLE_SQL gives a new table
CREATE_TABLE_SQL == {"id"} \cup Columns

RESPONDENT_TYPES ==
  << "Tourist", "Local Resident", "Hotel / Homestay / Resort Staff",
     "Shack / Restaurant Worker", "Taxi / Transport Worker",
     "Beach Worker / Lifeguard" >>

StaffTypes == {"Hotel / Homestay / Resort Staff", "Shack / Restaurant Worker"}
WorkerTypes == {"Taxi / Transport Worker", "Beach Worker / Lifeguard"}

(***************************************************************************)
(* The store: one sqlite table.  exists is whether the table responses     *)
(* exists, cols its columns, rows its rows in insertion (id) order, and    *)
(* seq the last AUTOINCREMENT id handed out.                               *)
(***************************************************************************)
NoTable == [exists |-> FALSE, cols |-> {}, rows |-> <<>>, seq |-> 0]

\* mutant: the table is dropped and created again
ensure_db_Recreates(d) ==
  [exists |-> TRUE, cols |-> CREATE_TABLE_SQL, rows |-> <<>>, seq |-> 0]

\* CREATE TABLE IF NOT EXISTS
ensure_db(d) ==
  IF d.exists THEN d
  ELSE [exists |-> TRUE, cols |-> CREATE_TABLE_SQL, rows |-> <<>>, seq |-> 0]

\* the INSERT statement names every column of ALL_COLUMNS: it fails on a
\* missing table or a missing column
InsertAccepted(d) == d.exists /\ Columns \subseteq d.cols

\* mutant: the age group is not taken from the row
InsertDataWithoutAge(row) ==
  [c \in Columns |->
     IF c \in DOMAIN row /\ row[c] # None /\ c # "age_group" THEN row[c] ELSE ""]

\* mutant: str() is applied to a missing or None value too
InsertDataStrNone(row) ==
  [c \in Columns |-> IF c \in DOMAIN row /\ row[c] # None THEN row[c] ELSE "None"]

\* the values bound to the INSERT: str(row[c]), "" for a missing or None value
InsertData(row) ==
  [c \in Columns |-> IF c \in DOMAIN row /\ row[c] # None THEN row[c] ELSE ""]

\* mutant: the row becomes visible before its opinion columns are written
insert_response_Partial(d, row) ==
  LET data == InsertData(row)
      new == [c \in d.cols |->
                IF c = "id" THEN d.seq + 1
                ELSE IF c \in Columns \ {"biggest_issue", "should_define_limits",
                                         "support_stricter_water_rules",
                                         "priority_suggestion"}
                     THEN data[c] ELSE None]
  IN [d EXCEPT !.rows = Append(@, new), !.seq = @ + 1]

insert_response(d, row) ==
  LET data == InsertData(row)
      new == [c \in d.cols |->
                IF c = "id" THEN d.seq + 1
                ELSE IF c \in Columns THEN data[c] ELSE None]
  IN [d EXCEPT !.rows = Append(@, new), !.seq = @ + 1]

\* mutant: ORDER BY id, ascending
ReverseKeepsOrder(seq) == seq

Reverse(seq) == [i \in 1..Len(seq) |-> seq[Len(seq) + 1 - i]]

\* SELECT * FROM responses ORDER BY id DESC, after ensure_db
fetch_all_responses(d) == Reverse(ensure_db(d).rows)

(***************************************************************************)
(* Session state (st.session_state of one browser session).                *)
(***************************************************************************)
EmptyForm == [c \in Columns |-> ""]

\* has_admin_key: whether the key admin_logged_in is in st.session_state
\* df: the dataframe the admin page shows, <<>> when it shows none
\* last_op: the handler that ran last
InitSession ==
  [page |-> "landing", step |-> 0, form |-> EmptyForm, errors |-> <<>>,
   last_respondent_type |-> None, admin_logged_in |-> FALSE,
   has_admin_key |-> TRUE, df |-> <<>>, last_op |-> "init"]

\* the keys are set in Init; a key deleted since is set again
init_state(ss) ==
  IF ss.has_admin_key THEN ss
  ELSE [ss EXCEPT !.admin_logged_in = FALSE, !.has_admin_key = TRUE]

\* mutant: the form is left as it is
reset_survey_keeps_form(ss) ==
  [ss EXCEPT !.step = 0, !.errors = <<>>,
             !.last_respondent_type = None, !.has_admin_key = FALSE]

\* the loop over the keys deletes the widget keys and, its name starting
\* with "admin_", the key admin_logged_in
reset_survey(ss) ==
  [ss EXCEPT !.step = 0, !.form = EmptyForm, !.errors = <<>>,
             !.last_respondent_type = None, !.has_admin_key = FALSE]

(***************************************************************************)
(* Validation.                                                             *)
(***************************************************************************)
TouristRequired ==
  << <<"length_of_stay", "Q4">>, <<"places_visited", "Q5">>,
     <<"aware_water_stress", "Q6">>, <<"showers_per_day", "Q7">>,
     <<"drinking_water", "Q8">>, <<"tourism_increases_water_demand", "Q9">>,
     <<"perceived_crowding", "Q10">>, <<"crowding_reduces_enjoyment", "Q11">>,
     <<"beach_cleanliness", "Q12">> >>

ResidentRequired ==
  << <<"tourism_affects_water_availability", "Q13">>,
     <<"peak_season_shortages_local", "Q14">>, <<"tanker_dependency", "Q15">>,
     <<"water_trend_years", "Q16">>, <<"benefits_shared_fairly", "Q17">> >>

StaffRequired ==
  << <<"peak_season_shortages_staff", "Q18">>, <<"main_water_source", "Q19">>,
     <<"water_saving_measures", "Q20">>,
     <<"tourism_growth_increases_pressure", "Q21">> >>

WorkerRequired ==
  << <<"peak_season_pressure", "Q22">>, <<"facilities_stressed", "Q23">>,
     <<"infra_handles_future_growth", "Q24">> >>

\* mutant: Q27 is not in the list
SustainabilityRequiredWithoutQ27 ==
  << <<"biggest_issue", "Q25">>, <<"should_define_limits", "Q26">> >>

SustainabilityRequired ==
  << <<"biggest_issue", "Q25">>, <<"should_define_limits", "Q26">>,
     <<"support_stricter_water_rules", "Q27">> >>

RECURSIVE RequiredErrorsNoStrip(_, _, _)
\* mutant: the value is not trimmed
RequiredErrorsNoStrip(f, required, tail) ==
  IF Len(required) = 0 THEN <<>>
  ELSE (IF f[required[1][1]] = ""
        THEN << required[1][2] \o tail >> ELSE <<>>)
       \o RequiredErrorsNoStrip(f, Tail(required), tail)

RECURSIVE RequiredErrors(_, _, _)
\* for k, q in required: if not str(f.get(k, "")).strip(): set_error(q + tail)
RequiredErrors(f, required, tail) ==
  IF Len(required) = 0 THEN <<>>
  ELSE (IF Strip(f[required[1][1]]) = ""
        THEN << required[1][2] \o tail >> ELSE <<>>)
       \o RequiredErrors(f, Tail(required), tail)

Step0Errors(f) ==
  IF ~Truthy(f["respondent_type"])
  THEN << "Q1 (Respondent type) is required." >> ELSE <<>>

\* mutant: the age group is required too
Step1ErrorsAgeRequired(f) ==
  (IF ~Truthy(f["zone"]) THEN << "Q2 (Zone) is required." >> ELSE <<>>)
  \o (IF f["zone"] = "Other" /\ Strip(f["zone_other_text"]) = ""
      THEN << "Q2 (Other zone) is required when Zone = Other." >> ELSE <<>>)
  \o (IF ~Truthy(f["time_in_area"])
      THEN << "Q3 (Time in area) is required." >> ELSE <<>>)
  \o (IF ~Truthy(f["age_group"]) THEN << "Age group is required." >> ELSE <<>>)

Step1Errors(f) ==
  (IF ~Truthy(f["zone"]) THEN << "Q2 (Zone) is required." >> ELSE <<>>)
  \o (IF f["zone"] = "Other" /\ Strip(f["zone_other_text"]) = ""
      THEN << "Q2 (Other zone) is required when Zone = Other." >> ELSE <<>>)
  \o (IF ~Truthy(f["time_in_area"])
      THEN << "Q3 (Time in area) is required." >> ELSE <<>>)

Step2Errors(f) ==
  LET rt == f["respondent_type"] IN
  IF rt = "Tourist"
    THEN RequiredErrors(f, TouristRequired, " is required for Tourist respondents.")
  ELSE IF rt = "Local Resident"
    THEN RequiredErrors(f, ResidentRequired,
                        " is required for Local Resident respondents.")
  ELSE IF rt \in StaffTypes
    THEN RequiredErrors(f, StaffRequired, " is required for Staff respondents.")
  ELSE IF rt \in WorkerTypes
    THEN RequiredErrors(f, WorkerRequired, " is required for Worker respondents.")
  ELSE << "Respondent type is missing. Go back to Step 1." >>

Step3Errors(f) == RequiredErrors(f, SustainabilityRequired, " is required.")

\* mutant: validation stops at the first violated constraint
validate_first_only(f, step) ==
  LET all == (IF step = 0 THEN Step0Errors(f) ELSE <<>>)
             \o (IF step = 1 THEN Step1Errors(f) ELSE <<>>)
             \o (IF step = 2 THEN Step2Errors(f) ELSE <<>>)
             \o (IF step = 3 THEN Step3Errors(f) ELSE <<>>)
  IN IF Len(all) > 1 THEN << all[1] >> ELSE all

\* the error list validate_current_step leaves in st.session_state.errors;
\* its return value is whether that list is empty
validate_current_step(f, step) ==
  (IF step = 0 THEN Step0Errors(f) ELSE <<>>)
  \o (IF step = 1 THEN Step1Errors(f) ELSE <<>>)
  \o (IF step = 2 THEN Step2Errors(f) ELSE <<>>)
  \o (IF step = 3 THEN Step3Errors(f) ELSE <<>>)

(***************************************************************************)
(* Step handlers: what a click on a step's submit button does to the       *)
(* session state, before the rerun.                                        *)
(***************************************************************************)
RoleFields ==
  << "length_of_stay", "places_visited", "aware_water_stress", "showers_per_day",
     "drinking_water", "tourism_increases_water_demand", "perceived_crowding",
     "crowding_reduces_enjoyment", "beach_cleanliness",
     "tourism_affects_water_availability", "peak_season_shortages_local",
     "tanker_dependency", "water_trend_years", "benefits_shared_fairly",
     "peak_season_shortages_staff", "main_water_source", "water_saving_measures",
     "tourism_growth_increases_pressure",
     "peak_season_pressure", "facilities_stressed", "infra_handles_future_growth" >>

\* mutant: only the Tourist fields are cleared
ClearTouristFields(f) ==
  [c \in Columns |-> IF c \in Range(SubSeq(RoleFields, 1, 9)) THEN "" ELSE f[c]]

\* for k in [...]: st.session_state.form[k] = ""
ClearRoleFields(f) == [c \in Columns |-> IF c \in Range(RoleFields) THEN "" ELSE f[c]]

\* mutant: the submitted type is compared with the type just stored in the form
TypeChangedAfterStore(last, rt) == OrElse(rt, "") # OrElse(rt, "")

\* whether the submitted type differs from the last recorded one
TypeChanged(last, rt) == last # OrElse(rt, "")

\* mutant: a successful Next of step 1 goes to step index 2
render_step_1_Skips(ss, rt) ==
  LET f1 == [ss.form EXCEPT !["respondent_type"] = OrElse(rt, "")]
      changed == TypeChanged(ss.last_respondent_type, rt)
      f2 == IF changed THEN ClearRoleFields(f1) ELSE f1
      last == IF changed THEN OrElse(rt, "") ELSE ss.last_respondent_type
      errs == validate_current_step(f2, 0)
  IN [ss EXCEPT !.form = f2, !.last_respondent_type = last, !.errors = errs,
                !.step = IF Len(errs) = 0 THEN 2 ELSE @]

\* Next of step 1 (index 0); rt is the selectbox value, None when empty
render_step_1(ss, rt) ==
  LET f1 == [ss.form EXCEPT !["respondent_type"] = OrElse(rt, "")]
      changed == TypeChanged(ss.last_respondent_type, rt)
      f2 == IF changed THEN ClearRoleFields(f1) ELSE f1
      last == IF changed THEN OrElse(rt, "") ELSE ss.last_respondent_type
      errs == validate_current_step(f2, 0)
  IN [ss EXCEPT !.form = f2, !.last_respondent_type = last, !.errors = errs,
                !.step = IF Len(errs) = 0 THEN 1 ELSE @]

\* mutant: the typed text of the zone option Other is stored as the zone
render_step_2_Merged(ss, w) ==
  LET f == [ss.form EXCEPT
              !["zone"] = IF w.zone = "Other" THEN Strip(w.zone_other)
                          ELSE OrElse(w.zone, ""),
              !["zone_other_text"] = "",
              !["time_in_area"] = OrElse(w.time_in_area, ""),
              !["age_group"] = OrElse(w.age_group, "")]
      errs == validate_current_step(f, 1)
  IN [ss EXCEPT !.form = f, !.errors = errs,
                !.step = IF Len(errs) = 0 THEN 2 ELSE @]

\* mutant: the companion text of an earlier submission is left in the draft
render_step_2_KeepsText(ss, w) ==
  LET f == [ss.form EXCEPT
              !["zone"] = OrElse(w.zone, ""),
              !["zone_other_text"] =
                 IF w.zone = "Other" THEN Strip(w.zone_other) ELSE @,
              !["time_in_area"] = OrElse(w.time_in_area, ""),
              !["age_group"] = OrElse(w.age_group, "")]
      errs == validate_current_step(f, 1)
  IN [ss EXCEPT !.form = f, !.errors = errs,
                !.step = IF Len(errs) = 0 THEN 2 ELSE @]

\* Next of step 2 (index 1); w.zone_other is the text input, "" when the
\* input is not drawn
render_step_2(ss, w) ==
  LET f == [ss.form EXCEPT
              !["zone"] = OrElse(w.zone, ""),
              !["zone_other_text"] =
                 IF w.zone = "Other" THEN Strip(w.zone_other) ELSE "",
              !["time_in_area"] = OrElse(w.time_in_area, ""),
              !["age_group"] = OrElse(w.age_group, "")]
      errs == validate_current_step(f, 1)
  IN [ss EXCEPT !.form = f, !.errors = errs,
                !.step = IF Len(errs) = 0 THEN 2 ELSE @]

\* the widget value under key k, d when the widget is not drawn
Get(w, k, d) == IF k \in DOMAIN w THEN w[k] ELSE d

NormWaterSaving(item) ==
  Replace(Replace(Replace(Replace(item,
    "Towel reuse policy", "towel reuse"),
    "Low-flow fixtures", "low-flow fixtures"),
    "Guest awareness signage", "signage"),
    "None", "none")

MapSeq(seq) == [i \in 1..Len(seq) |-> NormWaterSaving(seq[i])]

CaptureTourist(f, w) ==
  [f EXCEPT
    !["length_of_stay"] =
       Strip(Replace(OrElse(Get(w, "q4_w", None), ""), "More than 7 days", ">7 days")),
    !["places_visited"] = multiselect_to_text(Get(w, "q5_w", <<>>)),
    !["aware_water_stress"] = Lower(Strip(OrElse(Get(w, "q6_w", None), ""))),
    !["showers_per_day"] =
       Replace(Replace(Replace(OrElse(Get(w, "q7_w", None), ""),
         "Once", "1"), "Twice", "2"), "More than twice", ">2"),
    !["drinking_water"] =
       Replace(Replace(Replace(OrElse(Get(w, "q8_w", None), ""),
         "Bottled water", "bottled"),
         "Hotel-provided filtered water", "filtered"),
         "Both", "both"),
    !["tourism_increases_water_demand"] = Lower(OrElse(Get(w, "q9_w", None), "")),
    !["perceived_crowding"] = Lower(OrElse(Get(w, "q10_w", None), "")),
    !["crowding_reduces_enjoyment"] = Lower(OrElse(Get(w, "q11_w", None), "")),
    !["beach_cleanliness"] = Lower(OrElse(Get(w, "q12_w", None), ""))]

CaptureResident(f, w) ==
  [f EXCEPT
    !["tourism_affects_water_availability"] =
       Replace(Replace(Replace(OrElse(Get(w, "q13_w", None), ""),
         "Yes, significantly", "yes significantly"),
         "Yes, slightly", "yes slightly"),
         "No", "no"),
    !["peak_season_shortages_local"] = Lower(OrElse(Get(w, "q14_w", None), "")),
    !["tanker_dependency"] = Lower(OrElse(Get(w, "q15_w", None), "")),
    !["water_trend_years"] = Lower(OrElse(Get(w, "q16_w", None), "")),
    !["benefits_shared_fairly"] = Lower(OrElse(Get(w, "q17_w", None), ""))]

CaptureStaff(f, w) ==
  [f EXCEPT
    !["peak_season_shortages_staff"] = Lower(OrElse(Get(w, "q18_w", None), "")),
    !["main_water_source"] =
       Replace(Replace(Replace(Replace(OrElse(Get(w, "q19_w", None), ""),
         "Municipal supply", "municipal"),
         "Borewell / groundwater", "borewell/groundwater"),
         "Water tankers", "tankers"),
         "Combination", "combination"),
    !["water_saving_measures"] = multiselect_to_text(MapSeq(Get(w, "q20_w", <<>>))),
    !["tourism_growth_increases_pressure"] = Lower(OrElse(Get(w, "q21_w", None), ""))]

CaptureWorker(f, w) ==
  [f EXCEPT
    !["peak_season_pressure"] = Lower(OrElse(Get(w, "q22_w", None), "")),
    !["facilities_stressed"] = Lower(OrElse(Get(w, "q23_w", None), "")),
    !["infra_handles_future_growth"] = Lower(OrElse(Get(w, "q24_w", None), ""))]

\* the branch of the submit handler that writes the role's fields; rt is the
\* respondent type read when the step is drawn
CaptureRole(f, rt, w) ==
  IF rt = "Tourist" THEN CaptureTourist(f, w)
  ELSE IF rt = "Local Resident" THEN CaptureResident(f, w)
  ELSE IF rt \in StaffTypes THEN CaptureStaff(f, w)
  ELSE IF rt \in WorkerTypes THEN CaptureWorker(f, w)
  ELSE f

\* Next of step 3 (index 2); w maps the keys of the drawn widgets to their values
\* mutant: step 3 advances whatever the validation says
render_step_3_Unchecked(ss, w) ==
  LET f == CaptureRole(ss.form, ss.form["respondent_type"], w)
      errs == validate_current_step(f, 2)
  IN [ss EXCEPT !.form = f, !.errors = errs, !.step = 3]

render_step_3(ss, w) ==
  LET f == CaptureRole(ss.form, ss.form["respondent_type"], w)
      errs == validate_current_step(f, 2)
  IN [ss EXCEPT !.form = f, !.errors = errs,
                !.step = IF Len(errs) = 0 THEN 3 ELSE @]

\* the four assignments at the head of the Submit handler of step 4
CaptureSustainability(f, w) ==
  [f EXCEPT
    !["biggest_issue"] = Lower(OrElse(w.q25_w, "")),
    !["should_define_limits"] = Lower(OrElse(w.q26_w, "")),
    !["support_stricter_water_rules"] = Lower(OrElse(w.q27_w, "")),
    !["priority_suggestion"] = Strip(OrElse(w.q28_w, ""))]

\* datetime.now(timezone.utc).astimezone().isoformat(timespec="seconds") at
\* clock reading t, in seconds
IsoFormat(t) == "2026-01-01T00:00:0" \o ToString(t) \o "+00:00"

\* mutant: the timestamp is not written
StampedFormWithoutStamp(f, t) ==
  [f EXCEPT !["zone_other_text"] = IF f["zone"] # "Other" THEN "" ELSE @]

\* the row handed to insert_response
StampedForm(f, t) ==
  [f EXCEPT !["timestamp"] = IsoFormat(t),
            !["zone_other_text"] = IF f["zone"] # "Other" THEN "" ELSE @]

(***************************************************************************)
(* Widget options, and the widget values the model submits.                *)
(***************************************************************************)
zone_options == << "Baga", "Calangute", "Anjuna", "Candolim", "Vagator", "Other" >>
time_options == << "<1 week", "1-4 weeks", "several months", "many years" >>
age_options == << "<18", "18-25", "26-35", "36-50", "50+" >>

Q4Options == << "1-3 days", "4-7 days", "More than 7 days" >>
Q5Options == << "Beaches", "Markets", "Nightlife areas", "Heritage / cultural sites" >>
Q6Options == << "Yes", "No" >>
Q7Options == << "Once", "Twice", "More than twice" >>
Q8Options == << "Bottled water", "Hotel-provided filtered water", "Both" >>
Q9Options == << "Strongly agree", "Agree", "Neutral", "Disagree" >>
Q10Options == << "Low", "Moderate", "High", "Very high" >>
Q11Options == << "Not at all", "Slightly", "Moderately", "Significantly" >>
Q12Options == << "Very clean", "Clean", "Average", "Poor" >>
Q13Options == << "Yes, significantly", "Yes, slightly", "No" >>
Q14Options == << "Frequently", "Sometimes", "Rarely", "Never" >>
Q15Options == << "Yes", "No" >>
Q16Options == << "Improved", "No change", "Worsened" >>
Q17Options == << "Yes", "No", "Partially" >>
Q18Options == << "Yes", "No", "Sometimes" >>
Q19Options ==
  << "Municipal supply", "Borewell / groundwater", "Water tankers", "Combination" >>
Q20Options ==
  << "Towel reuse policy", "Low-flow fixtures", "Guest awareness signage", "None" >>
Q21Options == << "Yes", "No", "Unsure" >>
Q22Options == << "Low", "Moderate", "High", "Extreme" >>
Q23Options == << "Yes", "No" >>
Q24Options == << "Yes", "No", "Not sure" >>
Q25Options ==
  << "Water shortage", "Overcrowding", "Waste & pollution", "Traffic",
     "Loss of natural beauty" >>
Q26Options == << "Strongly agree", "Agree", "Neutral", "Disagree" >>
Q27Options == << "Yes", "No", "Depends" >>

\* a selectbox left empty (blank) or set to its last option
Sel(opts, blank) == IF blank THEN None ELSE opts[Len(opts)]

\* a multiselect left empty (blank) or set to its first and last options
Multi(opts, blank) == IF blank THEN <<>> ELSE << opts[1], opts[Len(opts)] >>

\* the widgets left empty in a submission of n widgets: none, all, or the
\* one at position m
BlankSets(n, m) == { {}, 1..n, {m} }

Step1Inputs == {None} \cup Range(RESPONDENT_TYPES)

Step2Inputs ==
  { [zone |-> None, zone_other |-> "", time_in_area |-> None, age_group |-> None],
    [zone |-> "Baga", zone_other |-> "", time_in_area |-> "many years",
     age_group |-> None],
    [zone |-> "Other", zone_other |-> "  ", time_in_area |-> "<1 week",
     age_group |-> None],
    [zone |-> "Other", zone_other |-> " North Goa ", time_in_area |-> "<1 week",
     age_group |-> "18-25"] }

TouristWidgets(b) ==
  [q4_w |-> Sel(Q4Options, 1 \in b), q5_w |-> Multi(Q5Options, 2 \in b),
   q6_w |-> Sel(Q6Options, 3 \in b), q7_w |-> Sel(Q7Options, 4 \in b),
   q8_w |-> Sel(Q8Options, 5 \in b), q9_w |-> Sel(Q9Options, 6 \in b),
   q10_w |-> Sel(Q10Options, 7 \in b), q11_w |-> Sel(Q11Options, 8 \in b),
   q12_w |-> Sel(Q12Options, 9 \in b)]

ResidentWidgets(b) ==
  [q13_w |-> Sel(Q13Options, 1 \in b), q14_w |-> Sel(Q14Options, 2 \in b),
   q15_w |-> Sel(Q15Options, 3 \in b), q16_w |-> Sel(Q16Options, 4 \in b),
   q17_w |-> Sel(Q17Options, 5 \in b)]

StaffWidgets(b) ==
  [q18_w |-> Sel(Q18Options, 1 \in b), q19_w |-> Sel(Q19Options, 2 \in b),
   q20_w |-> Multi(Q20Options, 3 \in b), q21_w |-> Sel(Q21Options, 4 \in b)]

WorkerWidgets(b) ==
  [q22_w |-> Sel(Q22Options, 1 \in b), q23_w |-> Sel(Q23Options, 2 \in b),
   q24_w |-> Sel(Q24Options, 3 \in b)]

\* the widgets step 3 draws for respondent type rt, with their values
Step3Inputs(rt) ==
  IF rt = "Tourist" THEN {TouristWidgets(b) : b \in BlankSets(9, 2)}
  ELSE IF rt = "Local Resident" THEN {ResidentWidgets(b) : b \in BlankSets(5, 5)}
  ELSE IF rt \in StaffTypes THEN {StaffWidgets(b) : b \in BlankSets(4, 3)}
  ELSE IF rt \in WorkerTypes THEN {WorkerWidgets(b) : b \in BlankSets(3, 1)}
  ELSE { <<>> }

Step4Widgets(b, t) ==
  [q25_w |-> Sel(Q25Options, 1 \in b), q26_w |-> Sel(Q26Options, 2 \in b),
   q27_w |-> Sel(Q27Options, 3 \in b), q28_w |-> t]

Step4Inputs ==
  { Step4Widgets(1..3, " Protect the rivers "), Step4Widgets({}, "") }

\* what is typed into the two text inputs of the login form
Credentials == {ADMIN_USERNAME, ADMIN_PASSWORD, "wrong", "givegoagroup9 "}

\* what the storage medium does to a commit: nothing, or it fails the
\* ensure_db or the INSERT of the Submit handler
Faults == {"none", "ensure", "insert"}

Sessions == {"s1", "s2"}

(***************************************************************************)
(* State.                                                                  *)
(***************************************************************************)
VARIABLES sess, db, now

vars == << sess, db, now >>

Init ==
  /\ sess = [s \in Sessions |-> InitSession]
  /\ db = NoTable
  /\ now = 0

\* what the page drawn at the end of a script run shows: the admin page of a
\* logged-in session reads the table
Draw(ss, d) ==
  [ss EXCEPT !.df = IF ss.page = "admin" /\ ss.admin_logged_in
                    THEN fetch_all_responses(d) ELSE <<>>]

\* a script run of session s ends in session state ss and store d; every
\* run starts with main's init_state and ensure_db
Run(s, ss, d, op) ==
  /\ sess' = [sess EXCEPT ![s] = Draw([init_state(ss) EXCEPT !.last_op = op], d)]
  /\ db' = ensure_db(d)
  /\ now' = now

(***************************************************************************)
(* Actions: one per button.                                                *)
(***************************************************************************)
\* the page is loaded or redrawn with no button clicked
Load(s) == Run(s, sess[s], db, sess[s].last_op)

SidebarHome(s) ==
  /\ sess[s].page # "survey"
  /\ Run(s, [sess[s] EXCEPT !.page = "landing"], db, "navigate")

SidebarSurvey(s) ==
  /\ sess[s].page # "survey"
  /\ Run(s, [reset_survey(sess[s]) EXCEPT !.page = "survey"], db, "start")

SidebarAdmin(s) ==
  /\ sess[s].page # "survey"
  /\ Run(s, [sess[s] EXCEPT !.page = "admin"], db, "navigate")

StartSurvey(s) ==
  /\ sess[s].page = "landing"
  /\ Run(s, [reset_survey(sess[s]) EXCEPT !.page = "survey"], db, "start")

AdminView(s) ==
  /\ sess[s].page = "landing"
  /\ Run(s, [sess[s] EXCEPT !.page = "admin"], db, "navigate")

Step1Next(s, rt) ==
  /\ sess[s].page = "survey" /\ sess[s].step = 0
  /\ Run(s, render_step_1(sess[s], rt), db, "advance")

Step2Next(s, w) ==
  /\ sess[s].page = "survey" /\ sess[s].step = 1
  /\ Run(s, render_step_2(sess[s], w), db, "advance")

Step3Next(s, w) ==
  /\ sess[s].page = "survey" /\ sess[s].step = 2
  /\ Run(s, render_step_3(sess[s], w), db, "advance")

\* mutant: the row is inserted before the validation
Step4RejectedAfterInsert(s, w) ==
  LET f == CaptureSustainability(sess[s].form, w)
      errs == validate_current_step(f, 3)
      d0 == ensure_db(db)
  IN /\ sess[s].page = "survey" /\ sess[s].step = 3
     /\ Len(errs) > 0
     /\ Len(d0.rows) < MaxRows
     /\ Run(s, [sess[s] EXCEPT !.form = f, !.errors = errs],
            insert_response(d0, StampedForm(f, now)), "advance")

\* Submit of step 4 whose validation fails
Step4Rejected(s, w) ==
  LET f == CaptureSustainability(sess[s].form, w)
      errs == validate_current_step(f, 3)
  IN /\ sess[s].page = "survey" /\ sess[s].step = 3
     /\ Len(errs) > 0
     /\ Run(s, [sess[s] EXCEPT !.form = f, !.errors = errs], db, "advance")

\* mutant: the survey is reset before the store is written
CommitFailedAfterReset(ss, f) == reset_survey(ss)

\* the session state an exception raised in the Submit handler leaves: the
\* run ends there, with the form as the handler has written it so far
CommitFailed(ss, f) == [ss EXCEPT !.form = f, !.errors = <<>>]

\* the store has room for the row a commit under fault would append: fewer
\* than n rows are stored
HasRoom(n, fault) ==
  (fault = "none" /\ InsertAccepted(ensure_db(db))) => Len(ensure_db(db).rows) < n

\* Submit of step 4 whose validation passes: the commit.  An exception of
\* ensure_db or insert_response ends the run where it is raised.
Step4Submit(s, w, fault) ==
  LET f == CaptureSustainability(sess[s].form, w)
      errs == validate_current_step(f, 3)
      d0 == ensure_db(db)
      row == StampedForm(f, now)
      ok == fault = "none" /\ InsertAccepted(d0)
  IN /\ sess[s].page = "survey" /\ sess[s].step = 3
     /\ Len(errs) = 0
     /\ IF fault = "ensure"
        THEN Run(s, CommitFailed(sess[s], f), db, "commit_failed")
        ELSE IF ~ok
        THEN Run(s, CommitFailed(sess[s], row), d0, "commit_failed")
        ELSE Run(s, [reset_survey([sess[s] EXCEPT !.form = row, !.errors = errs])
                       EXCEPT !.page = "landing"],
                 insert_response(d0, row), "commit")

\* the commit, taken while the store has room under the bound n
BoundedSubmit(s, w, fault, n) == HasRoom(n, fault) /\ Step4Submit(s, w, fault)

\* mutant: back validates the step it leaves
BackValidating(s) ==
  /\ sess[s].page = "survey" /\ sess[s].step # 0
  /\ Len(validate_current_step(sess[s].form, sess[s].step)) = 0
  /\ Run(s, [sess[s] EXCEPT !.errors = <<>>,
                            !.step = IF @ - 1 > 0 THEN @ - 1 ELSE 0],
         db, "back")

Back(s) ==
  /\ sess[s].page = "survey" /\ sess[s].step # 0
  /\ Run(s, [sess[s] EXCEPT !.errors = <<>>,
                            !.step = IF @ - 1 > 0 THEN @ - 1 ELSE 0],
         db, "back")

Cancel(s) ==
  /\ sess[s].page = "survey"
  /\ Run(s, [reset_survey(sess[s]) EXCEPT !.page = "landing"], db, "cancel")

\* mutant: the login is refused only when both inputs are wrong
AdminLoginEitherMatches(s, username, password) ==
  /\ sess[s].page = "admin" /\ ~sess[s].admin_logged_in
  /\ IF username # ADMIN_USERNAME /\ password # ADMIN_PASSWORD
     THEN Run(s, sess[s], db, "authenticate")
     ELSE Run(s, [sess[s] EXCEPT !.admin_logged_in = TRUE], db, "authenticate")

\* Enter on the login form
AdminLogin(s, username, password) ==
  /\ sess[s].page = "admin" /\ ~sess[s].admin_logged_in
  /\ IF username # ADMIN_USERNAME \/ password # ADMIN_PASSWORD
     THEN Run(s, sess[s], db, "authenticate")
     ELSE Run(s, [sess[s] EXCEPT !.admin_logged_in = TRUE], db, "authenticate")

AdminBackToLanding(s) ==
  /\ sess[s].page = "admin"
  /\ Run(s, [sess[s] EXCEPT !.page = "landing"], db, "navigate")

\* mutant: logout leaves the flag set
LogoutKeepsFlag(s) ==
  /\ sess[s].page = "admin" /\ sess[s].admin_logged_in
  /\ Run(s, sess[s], db, "logout")

Logout(s) ==
  /\ sess[s].page = "admin" /\ sess[s].admin_logged_in
  /\ Run(s, [sess[s] EXCEPT !.admin_logged_in = FALSE], db, "logout")

\* Download CSV, drawn when the table shown has rows
DownloadCsv(s) ==
  /\ sess[s].page = "admin" /\ sess[s].admin_logged_in
  /\ Len(sess[s].df) > 0
  /\ Run(s, sess[s], db, "exportCsv")

\* a second passes
Tick ==
  /\ now < MaxClock
  /\ now' = now + 1
  /\ UNCHANGED << sess, db >>

SessionNext(s) ==
  \/ Load(s)
  \/ SidebarHome(s)
  \/ SidebarSurvey(s)
  \/ SidebarAdmin(s)
  \/ StartSurvey(s)
  \/ AdminView(s)
  \/ \E rt \in Step1Inputs : Step1Next(s, rt)
  \/ \E w \in Step2Inputs : Step2Next(s, w)
  \/ \E w \in Step3Inputs(sess[s].form["respondent_type"]) : Step3Next(s, w)
  \/ \E w \in Step4Inputs : Step4Rejected(s, w)
  \/ \E w \in Step4Inputs, fault \in Faults : BoundedSubmit(s, w, fault, MaxRows)
  \/ Back(s)
  \/ Cancel(s)
  \/ \E u \in Credentials, p \in Credentials : AdminLogin(s, u, p)
  \/ AdminBackToLanding(s)
  \/ Logout(s)
  \/ DownloadCsv(s)

\* the tail of the Next handler of step 3 on its own: the validation of the
\* draft as it stands and the step it leaves
ValidateStep(s) ==
  LET errs == validate_current_step(sess[s].form, sess[s].step) IN
  /\ sess[s].page = "survey" /\ sess[s].step = 2 /\ sess[s].last_op = "init"
  /\ Run(s, [sess[s] EXCEPT !.errors = errs,
                            !.step = IF Len(errs) = 0 THEN 3 ELSE @],
         db, "validate")

\* one browser session
Next == SessionNext("s1")

Spec == Init /\ [][Next]_vars

(***************************************************************************)
(* Properties.  S1 is the session the specification Spec runs.             *)
(***************************************************************************)
S1 == sess["s1"]

TouristFields ==
  { "length_of_stay", "places_visited", "aware_water_stress", "showers_per_day",
    "drinking_water", "tourism_increases_water_demand", "perceived_crowding",
    "crowding_reduces_enjoyment", "beach_cleanliness" }

ResidentFields ==
  { "tourism_affects_water_availability", "peak_season_shortages_local",
    "tanker_dependency", "water_trend_years", "benefits_shared_fairly" }

StaffFields ==
  { "peak_season_shortages_staff", "main_water_source", "water_saving_measures",
    "tourism_growth_increases_pressure" }

WorkerFields ==
  { "peak_season_pressure", "facilities_stressed", "infra_handles_future_growth" }

AllRoleFields == TouristFields \cup ResidentFields \cup StaffFields \cup WorkerFields

\* the role-specific fields of respondent type rt
FieldsOf(rt) ==
  IF rt = "Tourist" THEN TouristFields
  ELSE IF rt = "Local Resident" THEN ResidentFields
  ELSE IF rt \in {"Hotel / Homestay / Resort Staff", "Shack / Restaurant Worker"}
    THEN StaffFields
  ELSE IF rt \in {"Taxi / Transport Worker", "Beach Worker / Lifeguard"}
    THEN WorkerFields
  ELSE {}

\* f holds nothing in the role-specific fields of the other categories
OtherFieldsEmpty(f) ==
  \A c \in AllRoleFields \ FieldsOf(f["respondent_type"]) : f[c] = ""

\* C1: every stored row is of one of the six respondent types and holds the
\* empty string in every role-specific field outside the field set of its
\* respondent type.
C1_RowsHoldOnlyOwnRoleFields ==
  \A i \in 1..Len(db.rows) :
    /\ db.rows[i]["respondent_type"] \in Range(RESPONDENT_TYPES)
    /\ OtherFieldsEmpty(db.rows[i])

\* a Shack / Restaurant Worker row is stored, with its own fields filled
C1_Witness ==
  \E i \in 1..Len(db.rows) :
    /\ db.rows[i]["respondent_type"] = "Shack / Restaurant Worker"
    /\ \A c \in StaffFields : db.rows[i][c] # ""

\* C2: a Next of step 0 whose type differs from the last recorded type
\* empties all 21 role-specific fields and records the submitted type; and
\* after a successful advance from step 0 the role-specific fields of the
\* other categories are empty.
C2_Step(a, b) ==
  (a.page = "survey" /\ a.step = 0 /\ b.last_op = "advance") =>
     /\ b.form["respondent_type"] # a.last_respondent_type =>
          /\ \A c \in AllRoleFields : b.form[c] = ""
          /\ b.last_respondent_type = b.form["respondent_type"]
     /\ b.step = 1 =>
          /\ b.form["respondent_type"] \in Range(RESPONDENT_TYPES)
          /\ OtherFieldsEmpty(b.form)

C2_TypeSwitchClearsRoleFields == [][C2_Step(S1, S1')]_vars

\* step 1 is entered from step 0 with every role-specific field empty,
\* although a Submit of step 4 was rejected before: the type was switched
\* after back-navigation from a draft with all role answers given
C2_Witness ==
  /\ S1.page = "survey" /\ S1.step = 1 /\ S1.last_op = "advance"
  /\ S1.form["priority_suggestion"] # ""
  /\ \A c \in AllRoleFields : S1.form[c] = ""

\* C4: the step index stays in 0..3 and a transition leaves it alone, adds
\* one (a successful advance), takes one off (back) or sets it to 0 (start,
\* cancel, commit).
C4_Step(a, b) ==
  \/ b.step = a.step
  \/ /\ b.step = a.step + 1
     /\ a.page = "survey" /\ b.page = "survey"
     /\ b.last_op = "advance" /\ b.errors = <<>>
  \/ b.step = a.step - 1 /\ a.step >= 1 /\ b.last_op = "back"
  \/ b.step = 0 /\ b.last_op \in {"start", "cancel", "commit"}

C4_StepIsLinear == [](S1.step \in 0..3) /\ [][C4_Step(S1, S1')]_vars

\* step 2 is reached by back from step 3
C4_Witness == S1.page = "survey" /\ S1.step = 2 /\ S1.last_op = "back"

\* v is empty after trimming
Blank(v) == \A i \in 1..Len(v) : SubSeq(v, i, i) \in {" ", "\t", "\n", "\r"}

QuestionOf ==
  [ length_of_stay |-> "Q4", places_visited |-> "Q5", aware_water_stress |-> "Q6",
    showers_per_day |-> "Q7", drinking_water |-> "Q8",
    tourism_increases_water_demand |-> "Q9", perceived_crowding |-> "Q10",
    crowding_reduces_enjoyment |-> "Q11", beach_cleanliness |-> "Q12",
    tourism_affects_water_availability |-> "Q13",
    peak_season_shortages_local |-> "Q14", tanker_dependency |-> "Q15",
    water_trend_years |-> "Q16", benefits_shared_fairly |-> "Q17",
    peak_season_shortages_staff |-> "Q18", main_water_source |-> "Q19",
    water_saving_measures |-> "Q20", tourism_growth_increases_pressure |-> "Q21",
    peak_season_pressure |-> "Q22", facilities_stressed |-> "Q23",
    infra_handles_future_growth |-> "Q24",
    biggest_issue |-> "Q25", should_define_limits |-> "Q26",
    support_stricter_water_rules |-> "Q27" ]

OpinionFields == {"biggest_issue", "should_define_limits", "support_stricter_water_rules"}

\* the constraints of step st that draft f violates, each named by its question
Violated(f, st) ==
  IF st = 0 THEN (IF f["respondent_type"] = "" THEN {"Q1"} ELSE {})
  ELSE IF st = 1 THEN
       (IF f["zone"] = "" THEN {"Q2"} ELSE {})
       \cup (IF f["zone"] = "Other" /\ Blank(f["zone_other_text"])
             THEN {"Q2 other"} ELSE {})
       \cup (IF f["time_in_area"] = "" THEN {"Q3"} ELSE {})
  ELSE IF st = 2 THEN
       IF f["respondent_type"] \in Range(RESPONDENT_TYPES)
       THEN {QuestionOf[c] : c \in {k \in FieldsOf(f["respondent_type"]) : Blank(f[k])}}
       ELSE {"type"}
  ELSE {QuestionOf[c] : c \in {k \in OpinionFields : Blank(f[k])}}

RECURSIVE FirstWord(_)
FirstWord(m) ==
  IF Len(m) = 0 \/ SubSeq(m, 1, 1) = " " THEN ""
  ELSE SubSeq(m, 1, 1) \o FirstWord(SubSeq(m, 2, Len(m)))

\* the constraint an error message reports
ConstraintOf(m) ==
  IF m = "Q2 (Other zone) is required when Zone = Other." THEN "Q2 other"
  ELSE IF m = "Respondent type is missing. Go back to Step 1." THEN "type"
  ELSE FirstWord(m)

\* errs holds one message for each constraint of cs and no other message
OneMessageEach(errs, cs) ==
  /\ Len(errs) = Cardinality(cs)
  /\ {ConstraintOf(errs[i]) : i \in 1..Len(errs)} = cs

\* C5: a submit of step s leaves one message for each constraint of step s
\* the draft violates and no other message; the step index goes up by one
\* (from step 3: the commit is run) exactly when that list is empty, and
\* else it stays with a non-empty list.
C5_Step(a, b) ==
  /\ (a.page = "survey" /\ b.last_op = "advance") =>
       /\ b.page = "survey"
       /\ OneMessageEach(b.errors, Violated(b.form, a.step))
       /\ IF b.errors = <<>> THEN a.step < 3 /\ b.step = a.step + 1
                             ELSE b.step = a.step
  /\ (a.page = "survey" /\ b.last_op \in {"commit", "commit_failed"}) =>
       /\ a.step = 3
       /\ b.errors = <<>>
       /\ b.last_op = "commit_failed" => Violated(b.form, 3) = {}

C5_ErrorsAreTheViolations == [][C5_Step(S1, S1')]_vars

\* a rejected submit of step 2 left several messages
C5_Witness ==
  /\ S1.page = "survey" /\ S1.step = 2 /\ S1.last_op = "advance"
  /\ Len(S1.errors) >= 3

\* ss is a fresh draft
Fresh(ss) ==
  /\ ss.step = 0
  /\ \A c \in Columns : ss.form[c] = ""
  /\ ss.errors = <<>>
  /\ ss.last_respondent_type = None

\* C6: a successful commit appends one row; the row holds the draft the
\* Submit handler holds (the fields of steps 0..2 as they were, the submitted
\* opinion fields, a non-empty timestamp), and the session is left on the
\* landing page with a fresh draft.
C6_Step(a, b) ==
  (a.page = "survey" /\ b.last_op = "commit") =>
     /\ Len(db'.rows) = Len(db.rows) + 1
     /\ SubSeq(db'.rows, 1, Len(db.rows)) = db.rows
     /\ LET r == db'.rows[Len(db'.rows)] IN
          /\ r["timestamp"] # ""
          /\ \A c \in Columns \ (OpinionFields \cup {"timestamp", "priority_suggestion"}) :
               r[c] = a.form[c]
          /\ \E w \in Step4Inputs :
               \A c \in OpinionFields \cup {"priority_suggestion"} :
                 r[c] = CaptureSustainability(a.form, w)[c]
          /\ Violated(r, 0) \cup Violated(r, 1) \cup Violated(r, 2)
               \cup Violated(r, 3) = {}
     /\ b.page = "landing"
     /\ Fresh(b)

C6_CommitStoresTheDraft == [][C6_Step(S1, S1')]_vars

\* a commit has stored a row with a zone typed by the respondent
C6_Witness ==
  /\ S1.last_op = "commit" /\ S1.page = "landing"
  /\ Len(db.rows) = 1 /\ db.rows[1]["zone"] = "Other"
  /\ db.rows[1]["age_group"] # ""

\* C7: a commit whose ensure_db or INSERT fails stores nothing, leaves the
\* session in the survey at step 3 and keeps the draft: the answers of steps
\* 0..2 as they were and the submitted opinion fields, which still pass the
\* validation of every step, so that Submit can be clicked again.
C7_Step(a, b) ==
  (a.page = "survey" /\ b.last_op = "commit_failed") =>
     /\ db'.rows = db.rows
     /\ b.page = "survey" /\ b.step = 3
     /\ \A c \in Columns \ (OpinionFields \cup {"timestamp", "priority_suggestion"}) :
          b.form[c] = a.form[c]
     /\ \A c \in OpinionFields : ~Blank(b.form[c])
     /\ Violated(b.form, 0) \cup Violated(b.form, 1) \cup Violated(b.form, 2)
          \cup Violated(b.form, 3) = {}

C7_FailedCommitKeepsDraft == [][C7_Step(S1, S1')]_vars

\* the INSERT failed: the draft is stamped and still holds its answers
C7_Witness ==
  /\ S1.last_op = "commit_failed" /\ S1.page = "survey" /\ S1.step = 3
  /\ S1.form["timestamp"] # "" /\ S1.form["zone_other_text"] # ""
  /\ db.rows = <<>>

\* C8: the stored rows change only by a successful commit from step 3, which
\* appends one complete row and leaves the rows before it as they were.
C8_Step(a, b) ==
  \/ db'.rows = db.rows
  \/ /\ a.page = "survey" /\ a.step = 3 /\ b.last_op = "commit"
     /\ Len(db'.rows) = Len(db.rows) + 1
     /\ SubSeq(db'.rows, 1, Len(db.rows)) = db.rows
     /\ LET r == db'.rows[Len(db'.rows)] IN
          /\ DOMAIN r = CREATE_TABLE_SQL
          /\ Violated(r, 0) \cup Violated(r, 1) \cup Violated(r, 2)
               \cup Violated(r, 3) = {}

C9_Step(a, b) ==
  (a.page = "survey" /\ b.last_op = "cancel") =>
     /\ db'.rows = db.rows
     /\ b.page = "landing"
     /\ Fresh(b)

C9_CancelDiscardsDraft == [][C9_Step(S1, S1')]_vars

\* a cancel has run after a commit
C9_Witness ==
  /\ S1.last_op = "cancel" /\ S1.page = "landing"
  /\ Len(db.rows) = 1

\* C10: back is enabled at every step >= 1 whatever the draft holds; it takes
\* one off the step index, empties the error list and leaves the draft's
\* answers as they are.
C10_Step(a, b) ==
  (a.page = "survey" /\ b.last_op = "back" /\ b # a) =>
     /\ a.step >= 1
     /\ b.step = a.step - 1
     /\ b.errors = <<>>
     /\ b.form = a.form
     /\ b.last_respondent_type = a.last_respondent_type
     /\ b.page = "survey"

C10_Enabled == (S1.page = "survey" /\ S1.step >= 1) => ENABLED Back("s1")

C10_BackNeverValidates ==
  [][C10_Enabled /\ C10_Enabled' /\ C10_Step(S1, S1')]_vars

\* back from step 2 with a draft that step 2 rejects: the multiselect of the
\* Tourist questions is empty
C10_Witness ==
  /\ S1.page = "survey" /\ S1.step = 1 /\ S1.last_op = "back"
  /\ S1.form["respondent_type"] = "Tourist"
  /\ S1.form["places_visited"] = "" /\ S1.form["length_of_stay"] # ""
  /\ S1.errors = <<>>

(***************************************************************************)
(* Validation as a function of the draft: the specification SpecV starts   *)
(* step 3 (index 2) on drafts drawn from ValidationForms and validates.    *)
(***************************************************************************)
\* a draft of type rt whose own fields in bad hold bv and the others "yes",
\* and whose fields of the other categories hold ov
FormOf(rt, bad, bv, ov) ==
  [c \in Columns |->
     IF c = "respondent_type" THEN rt
     ELSE IF c \in bad THEN bv
     ELSE IF c \in FieldsOf(rt) THEN "yes"
     ELSE IF c \in AllRoleFields THEN ov
     ELSE ""]

ValidationForms ==
  UNION { { FormOf(rt, bad, bv, ov) :
              bad \in {b \in SUBSET FieldsOf(rt) : Cardinality(b) <= MaxBlank},
              bv \in {"", "  "}, ov \in {"", " ", "no"} } :
          rt \in Range(RESPONDENT_TYPES) }

InitV ==
  /\ \E f \in ValidationForms :
       sess = [s \in Sessions |->
                 IF s = "s1"
                 THEN [InitSession EXCEPT !.page = "survey", !.step = 2, !.form = f,
                         !.last_respondent_type = f["respondent_type"]]
                 ELSE InitSession]
  /\ db = NoTable
  /\ now = 0

NextV == ValidateStep("s1")

SpecV == InitV /\ [][NextV]_vars

\* C3: validation at step 2 rejects the draft exactly when a field of the
\* required set of its respondent type is empty after trimming, whatever the
\* fields of the other categories hold.
C3_RejectsIffRequiredFieldBlank ==
  S1.last_op = "validate" =>
     /\ S1.errors # <<>> <=>
          \E c \in FieldsOf(S1.form["respondent_type"]) : Blank(S1.form[c])
     /\ S1.step = 2 <=> S1.errors # <<>>
     /\ S1.step \in {2, 3}

\* a draft is rejected for a field that holds only spaces, and the fields of
\* the other categories are filled
C3_Witness ==
  /\ S1.last_op = "validate" /\ S1.step = 2
  /\ S1.form["respondent_type"] = "Beach Worker / Lifeguard"
  /\ S1.form["facilities_stressed"] = "  "
  /\ S1.form["peak_season_pressure"] = "yes"
  /\ S1.form["infra_handles_future_growth"] = "yes"
  /\ S1.form["length_of_stay"] = "no"
  /\ Len(S1.errors) = 1

(***************************************************************************)
(* The zone option Other and its companion text.                           *)
(***************************************************************************)
\* the submissions of step 1 that select the zone Other with a companion
\* text that is not blank
OtherZoneInputs == {w \in Step2Inputs : w.zone = "Other" /\ ~Blank(w.zone_other)}

\* the row a commit step has appended
NewRow == db'.rows[Len(db'.rows)]

\* C11 as stated: a successful advance from step 1 with the zone Other and a
\* companion text stores the typed text as the zone, and the row committed
\* later has the typed text as its zone.
C11_OriginalStep(a, b) ==
  /\ (a.page = "survey" /\ a.step = 1 /\ b.last_op = "advance" /\ b.step = 2) =>
       \A w \in OtherZoneInputs :
         b.form = render_step_2(a, w).form => b.form["zone"] = Strip(w.zone_other)
  /\ (a.page = "survey" /\ b.last_op = "commit" /\ a.form["zone_other_text"] # "") =>
       NewRow["zone"] = a.form["zone_other_text"]

C11_ZoneIsTheTypedText == [][C11_OriginalStep(S1, S1')]_vars

\* C11 (amended): a successful advance from step 1 with the zone Other and a
\* companion text stores "Other" as the zone and the trimmed text in
\* zone_other_text; the row committed later has the zone "Other" and that
\* text in zone_other_text, and every stored row has a non-empty
\* zone_other_text exactly when its zone is "Other".
C11_Step(a, b) ==
  /\ (a.page = "survey" /\ a.step = 1 /\ b.last_op = "advance" /\ b.step = 2) =>
       \A w \in OtherZoneInputs :
         b.form = render_step_2(a, w).form =>
           /\ b.form["zone"] = "Other"
           /\ b.form["zone_other_text"] = Strip(w.zone_other)
  /\ (a.page = "survey" /\ b.last_op = "commit") =>
       /\ NewRow["zone"] = a.form["zone"]
       /\ NewRow["zone_other_text"] = a.form["zone_other_text"]
       /\ NewRow["zone"] \in Range(zone_options)
       /\ NewRow["zone"] = "Other" <=> NewRow["zone_other_text"] # ""
       /\ ~Blank(NewRow["zone_other_text"]) \/ NewRow["zone_other_text"] = ""

C11_OtherZoneKeepsCompanionText == [][C11_Step(S1, S1')]_vars

\* a row of zone Other is stored with the typed text, trimmed, beside it
C11_Witness ==
  /\ S1.last_op = "commit"
  /\ \E i \in 1..Len(db.rows) :
       /\ db.rows[i]["zone"] = "Other"
       /\ db.rows[i]["zone_other_text"] = "North Goa"

(***************************************************************************)
(* Step 1 (context) on every combination of its widgets: the specification *)
(* SpecC enters the survey as a Local Resident and submits step 1 with     *)
(* each value of ContextInputs.                                            *)
(***************************************************************************)
ContextTexts == {"", "  ", " North Goa "}

\* the first and the last option of a selectbox
Ends(opts) == {opts[1], opts[Len(opts)]}

\* the values of the three selectboxes, None for one left empty; the text
\* input is drawn for the zone Other only
ContextInputs ==
  { w \in [zone : {None} \cup Ends(zone_options),
           zone_other : ContextTexts,
           time_in_area : {None} \cup Ends(time_options),
           age_group : {None} \cup Range(age_options)] :
      w.zone # "Other" => w.zone_other = "" }

NextC ==
  \/ StartSurvey("s1")
  \/ Step1Next("s1", "Local Resident")
  \/ \E w \in ContextInputs : Step2Next("s1", w)
  \/ Back("s1")
  \/ Cancel("s1")

SpecC == Init /\ [][NextC]_vars

\* the submission w of step 1 may advance
C12_Permitted(w) ==
  /\ w.zone # None
  /\ w.time_in_area # None
  /\ w.zone = "Other" => ~Blank(w.zone_other)

\* C12: a submission of step 1 advances to step 2 exactly when a zone and a
\* time in area are selected and, for the zone Other, the companion text is
\* not blank; whether an age group is selected makes no difference, and the
\* age group stored is one of the listed options or empty.
C12_Step(a, b) ==
  (a.page = "survey" /\ a.step = 1 /\ b.last_op = "advance") =>
     /\ b.step \in {1, 2}
     /\ \A w \in ContextInputs :
          b.form = render_step_2(a, w).form =>
            /\ b.step = 2 <=> C12_Permitted(w)
            /\ b.step = 2 <=>
                 C12_Permitted([w EXCEPT !.age_group =
                                  IF @ = None THEN "50+" ELSE None])
     /\ b.form["age_group"] \in {""} \cup Range(age_options)
     /\ b.step = 2 <=> b.errors = <<>>

C12_ContextAdvancesIffComplete == [][C12_Step(S1, S1')]_vars

\* step 2 is reached with the zone Other, its text given and no age group
C12_Witness ==
  /\ S1.page = "survey" /\ S1.step = 2 /\ S1.last_op = "advance"
  /\ S1.form["zone"] = "Other" /\ S1.form["zone_other_text"] = "North Goa"
  /\ S1.form["age_group"] = ""

(***************************************************************************)
(* Step 4 (sustainability) on every combination of its widgets: the        *)
(* specification SpecW walks one Taxi / Transport Worker draft to step 4   *)
(* and submits it with each value of SustainabilityInputs.                 *)
(***************************************************************************)
SuggestionTexts == {"", "  ", " Protect the rivers "}

\* each of the three selectboxes empty or set, with each suggestion text
SustainabilityInputs ==
  { Step4Widgets(b, t) : b \in SUBSET (1..3), t \in SuggestionTexts }

BagaContext ==
  [zone |-> "Baga", zone_other |-> "", time_in_area |-> "many years",
   age_group |-> None]

NextW ==
  \/ StartSurvey("s1")
  \/ Step1Next("s1", "Taxi / Transport Worker")
  \/ Step2Next("s1", BagaContext)
  \/ Step3Next("s1", WorkerWidgets({}))
  \/ \E w \in SustainabilityInputs : Step4Rejected("s1", w)
  \/ \E w \in SustainabilityInputs, fault \in Faults :
       BoundedSubmit("s1", w, fault, MaxRows)
  \/ Back("s1")
  \/ Cancel("s1")

SpecW == Init /\ [][NextW]_vars

\* C13: the stored rows change only by a Submit of step 3 that passes the
\* validation, and the row it stores holds a non-blank value in each of the
\* three opinion fields; a Submit of step 3 is rejected only when one of the
\* three is blank, whatever the suggestion holds, and a rejected Submit
\* leaves the store as it is.
C13_Step(a, b) ==
  /\ db'.rows # db.rows =>
       /\ a.page = "survey" /\ a.step = 3 /\ b.last_op = "commit"
       /\ Len(db'.rows) = Len(db.rows) + 1
       /\ \A c \in OpinionFields : ~Blank(NewRow[c])
  /\ (a.page = "survey" /\ a.step = 3 /\ b.last_op = "advance") =>
       /\ db'.rows = db.rows /\ db'.seq = db.seq
       /\ \E c \in OpinionFields : Blank(b.form[c])
       /\ b.errors # <<>>
       /\ b.page = "survey" /\ b.step = 3
  /\ (a.page = "survey" /\ b.last_op = "commit_failed") =>
       /\ a.step = 3
       /\ \A c \in OpinionFields : ~Blank(b.form[c])

C13_CommitOnlyAfterValidation ==
  [](\A i \in 1..Len(db.rows) : \A c \in OpinionFields : ~Blank(db.rows[i][c]))
  /\ [][C13_Step(S1, S1')]_vars

\* a Taxi / Transport Worker row is stored with an empty suggestion
C13_Witness ==
  /\ S1.last_op = "commit"
  /\ Len(db.rows) = 1 /\ db.rows[1]["priority_suggestion"] = ""
  /\ db.rows[1]["respondent_type"] = "Taxi / Transport Worker"

(***************************************************************************)
(* The admin gate.                                                         *)
(***************************************************************************)
\* C14: the admin page shows stored rows, and Download CSV runs, only in a
\* session whose admin flag is set; the flag goes from unset to set only by
\* a login on the admin page, a login sets it exactly when the username and
\* the password both equal the configured ones, and any other pair leaves
\* it unset and the rows unread.
C14_Step(a, b) ==
  /\ b.df # <<>> => b.admin_logged_in /\ b.page = "admin"
  /\ b.last_op = "exportCsv" => a.admin_logged_in /\ a.page = "admin" /\ a.df # <<>>
  /\ (~a.admin_logged_in /\ b.admin_logged_in) =>
       /\ a.page = "admin" /\ b.last_op = "authenticate"
  /\ \A u \in Credentials, p \in Credentials :
       AdminLogin("s1", u, p) =>
         /\ b.admin_logged_in <=> (u = ADMIN_USERNAME /\ p = ADMIN_PASSWORD)
         /\ ~b.admin_logged_in => b.df = <<>>

C14_RowsReadOnlyAfterLogin ==
  [](S1.df # <<>> => S1.admin_logged_in) /\ [][C14_Step(S1, S1')]_vars

\* the login with the configured pair has just run and the page shows the
\* stored row
C14_Witness ==
  /\ S1.last_op = "authenticate" /\ S1.admin_logged_in
  /\ S1.page = "admin" /\ Len(S1.df) = 1

\* C15 as stated: after logout the page is landing and the admin flag is
\* unset.
C15_LogoutReturnsToLanding ==
  S1.last_op = "logout" => S1.page = "landing" /\ ~S1.admin_logged_in

\* C15 (amended): logout unsets the admin flag and leaves the session on
\* the admin page, which then shows the login form and no rows; the landing
\* page is reached from the admin page by explicit navigation (Back to
\* Landing or the sidebar's Home), which leaves the flag as it is.
C15_Step(a, b) ==
  /\ (a.page = "admin" /\ b.last_op = "logout") =>
       /\ b.page = "admin"
       /\ ~b.admin_logged_in
       /\ b.df = <<>>
  /\ (a.page = "admin" /\ b.page = "landing") =>
       /\ b.last_op = "navigate"
       /\ b.admin_logged_in = a.admin_logged_in

C15_LogoutStaysOnAdminPage == [][C15_Step(S1, S1')]_vars

\* logout has run while a row is stored: the page is the admin page, the
\* flag is unset and no row is shown
C15_Witness ==
  /\ S1.last_op = "logout" /\ S1.page = "admin" /\ ~S1.admin_logged_in
  /\ Len(db.rows) = 1 /\ S1.df = <<>>

(***************************************************************************)
(* A store left by an earlier version of the schema: the specification     *)
(* SpecM starts on a table that lacks some columns of ALL_COLUMNS and      *)
(* walks one Local Resident draft to the commit.                           *)
(***************************************************************************)
\* the columns an earlier schema lacked
LegacyMissing == { {}, {"priority_suggestion"}, {"zone_other_text", "age_group"} }

\* a row stored under the columns cols
LegacyRow(cols) ==
  [c \in cols |->
     IF c = "id" THEN 1
     ELSE IF c = "timestamp" THEN "2025-12-31T23:59:59+00:00"
     ELSE IF c = "respondent_type" THEN "Tourist"
     ELSE IF c \in {"zone", "time_in_area"} THEN "Baga"
     ELSE ""]

\* the table as an earlier version left it, empty or with one row
LegacyTables ==
  { [exists |-> TRUE, cols |-> CREATE_TABLE_SQL \ miss,
     rows |-> IF n = 0 THEN <<>> ELSE << LegacyRow(CREATE_TABLE_SQL \ miss) >>,
     seq |-> n] : miss \in LegacyMissing, n \in {0, 1} }

InitM ==
  /\ sess = [s \in Sessions |-> InitSession]
  /\ db \in LegacyTables
  /\ now = 0

NextM ==
  \/ Load("s1")
  \/ StartSurvey("s1")
  \/ Step1Next("s1", "Local Resident")
  \/ \E w \in Step2Inputs : Step2Next("s1", w)
  \/ Step3Next("s1", ResidentWidgets({}))
  \/ \E w \in Step4Inputs : Step4Rejected("s1", w)
  \/ \E w \in Step4Inputs : BoundedSubmit("s1", w, "none", MaxCommits)
  \/ Back("s1")
  \/ Cancel("s1")

SpecM == InitM /\ [][NextM]_vars

\* C16: every script run calls ensure_db; after it the table has every
\* column of the schema, and the rows stored before read the empty string
\* in the columns that were added.
C16_Step ==
  /\ Columns \subseteq db'.cols
  /\ \A i \in 1..Len(db.rows) :
       /\ DOMAIN db'.rows[i] = db'.cols
       /\ \A c \in Columns \ db.cols : db'.rows[i][c] = ""
       /\ \A c \in db.cols : db'.rows[i][c] = db.rows[i][c]

C16_EnsureAddsMissingColumns == [][C16_Step]_vars

(***************************************************************************)
(* Two browser sessions on one store: the specification Spec2 interleaves  *)
(* the script runs of the sessions s1 and s2, each walking one complete    *)
(* draft to the commit, and lets the clock advance between runs.           *)
(***************************************************************************)
\* the respondent of each session
RespondentOf == [s1 |-> "Tourist", s2 |-> "Local Resident"]

\* step 3 of session s with every question answered
CompleteAnswers(s) ==
  IF RespondentOf[s] = "Tourist" THEN TouristWidgets({}) ELSE ResidentWidgets({})

Visit(s) ==
  \/ Load(s)
  \/ StartSurvey(s)
  \/ Step1Next(s, RespondentOf[s])
  \/ Step2Next(s, BagaContext)
  \/ Step3Next(s, CompleteAnswers(s))
  \/ BoundedSubmit(s, Step4Widgets({}, ""), "none", MaxCommits)
  \/ Cancel(s)

Next2 ==
  \/ \E s \in Sessions : Visit(s)
  \/ Tick

Spec2 == Init /\ [][Next2]_vars

\* C17: every script run of either session calls ensure_db.  After each run
\* the table exists with the columns the first call gave it, a call on an
\* existing table leaves its columns as they are, a further call right
\* after changes nothing, and no call changes or removes a stored row: the
\* row of a commit is there after the ensure_db of the run that follows it.
C17_Step ==
  /\ now' = now =>
       /\ db'.exists /\ db'.cols = CREATE_TABLE_SQL
       /\ ensure_db(db') = db'
  /\ db.exists => db'.cols = db.cols /\ ensure_db(db) = db
  /\ ensure_db(ensure_db(db)) = ensure_db(db)
  /\ Len(db'.rows) >= Len(db.rows)
  /\ SubSeq(db'.rows, 1, Len(db.rows)) = db.rows
  /\ ensure_db(db).rows = db.rows
  /\ \A s \in Sessions :
       (sess[s].last_op # "commit" /\ sess'[s].last_op = "commit") =>
          Len(db'.rows) = Len(db.rows) + 1

C17_EnsureIsIdempotent == [][C17_Step]_vars

\* both sessions have stored a row: each has called ensure_db on the table
\* the other one created or wrote
C17_Witness ==
  /\ Len(db.rows) = 2
  /\ db.rows[1]["respondent_type"] = "Local Resident"
  /\ db.rows[2]["respondent_type"] = "Tourist"
  /\ sess["s1"].last_op = "commit" /\ sess["s2"].page = "survey"

(***************************************************************************)
(* The three store helpers on their own: the specification SpecS calls     *)
(* ensure_db, insert_response and fetch_all_responses in any order, with   *)
(* rows that lack keys or hold None.  df of session s1 holds what its last *)
(* fetch_all_responses returned.                                           *)
(***************************************************************************)
RowKeys == {"zone", "age_group", "priority_suggestion"}

\* the dicts handed to insert_response: each key of RowKeys is missing, or
\* holds None, the empty string or a text
RowInputs == UNION { [dom -> {None, "", " Goa "}] : dom \in SUBSET RowKeys }

EnsureDb ==
  /\ db' = ensure_db(db)
  /\ UNCHANGED << sess, now >>

\* insert_response(row); the INSERT raises on a missing table
InsertResponse(row) ==
  /\ Len(db.rows) < MaxCommits
  /\ db' = IF InsertAccepted(db) THEN insert_response(db, row) ELSE db
  /\ UNCHANGED << sess, now >>

FetchAll(s) ==
  /\ sess' = [sess EXCEPT ![s].df = fetch_all_responses(db), ![s].last_op = "listAll"]
  /\ db' = ensure_db(db)
  /\ now' = now

NextS ==
  \/ EnsureDb
  \/ \E row \in RowInputs : InsertResponse(row)
  \/ FetchAll("s1")

SpecS == Init /\ [][NextS]_vars

\* the value of key c of the dict row, "" when the key is missing or holds None
Given(row, c) == IF c \in DOMAIN row /\ row[c] # None THEN row[c] ELSE ""

\* C18: after insert_response(row), fetch_all_responses returns the new row
\* first; it has every column of the schema, and its value in each column is
\* the value row gave, the empty string when row lacks the key or holds None
\* there, and never None.
C18_Step ==
  \A row \in RowInputs :
    (InsertAccepted(db) /\ InsertResponse(row)) =>
       LET got == fetch_all_responses(db') IN
         /\ Len(got) = Len(db.rows) + 1
         /\ Columns \subseteq DOMAIN got[1]
         /\ \A c \in Columns : got[1][c] = Given(row, c) /\ got[1][c] # None

C18_InsertFetchRoundTrip == [][C18_Step]_vars

\* a row given with a text as its zone and no other key has been stored and
\* fetched
C18_Witness ==
  /\ S1.last_op = "listAll" /\ Len(S1.df) = 1 /\ S1.df = db.rows
  /\ S1.df[1]["zone"] = " Goa "
  /\ \A c \in Columns \ {"zone"} : S1.df[1][c] = ""

\* C19: fetch_all_responses returns each stored row once, the row inserted
\* last first (ids descending); on a missing table it creates the table and
\* returns the empty sequence; it leaves the stored rows as they are.
C19_Step ==
  FetchAll("s1") =>
    LET r == S1'.df
        n == Len(db.rows)
    IN /\ Len(r) = n
       /\ \A i \in 1..n : r[i] = db.rows[n + 1 - i]
       /\ \A i \in 1..n : \A j \in 1..n : i < j => r[i]["id"] > r[j]["id"]
       /\ \A k \in 1..n : Cardinality({i \in 1..n : r[i]["id"] = db.rows[k]["id"]}) = 1
       /\ ~db.exists => r = <<>> /\ db'.exists
       /\ db'.rows = db.rows

C19_FetchAllNewestFirst ==
  [](\A i \in 1..Len(db.rows) : db.rows[i]["id"] = i) /\ [][C19_Step]_vars

\* two different rows are stored and fetched: the second one comes first
C19_Witness ==
  /\ S1.last_op = "listAll" /\ Len(S1.df) = 2 /\ Len(db.rows) = 2
  /\ S1.df[1] = db.rows[2] /\ S1.df[2] = db.rows[1]
  /\ S1.df[1]["zone"] # S1.df[2]["zone"]

(***************************************************************************)
(* Commits of two sessions.                                                *)
(***************************************************************************)
\* this step is a commit of session s
CommitBy(s) == sess[s].last_op # "commit" /\ sess'[s].last_op = "commit"

\* the clock reading a stored timestamp was taken at
SecondOf(ts) == CHOOSE t \in 0..MaxClock : IsoFormat(t) = ts

\* C20 as stated: the rows of two different sessions carry distinct
\* timestamps, whenever the two commits happen.
C20_TimestampsAlwaysDistinct ==
  \A i \in 1..Len(db.rows) : \A j \in 1..Len(db.rows) :
    db.rows[i]["respondent_type"] # db.rows[j]["respondent_type"] =>
      db.rows[i]["timestamp"] # db.rows[j]["timestamp"]

\* C20 (amended): absent a storage fault, each commit of either session
\* succeeds and appends exactly one row, with a new id and the commit time in
\* whole seconds as its timestamp, and leaves the other session as it is; so
\* two sequential commits of two sessions leave two more rows, whose
\* timestamps are distinct when the commits happen in different seconds and
\* equal when they happen in the same second.
C20_Step ==
  \A s \in Sessions :
    CommitBy(s) =>
      /\ Len(db'.rows) = Len(db.rows) + 1
      /\ SubSeq(db'.rows, 1, Len(db.rows)) = db.rows
      /\ NewRow["respondent_type"] = RespondentOf[s]
      /\ NewRow["timestamp"] = IsoFormat(now)
      /\ \A i \in 1..Len(db.rows) :
           /\ NewRow["id"] # db.rows[i]["id"]
           /\ NewRow["timestamp"] = db.rows[i]["timestamp"]
                <=> SecondOf(db.rows[i]["timestamp"]) = now
      /\ \A o \in Sessions \ {s} : sess'[o] = sess[o]
      /\ sess'[s].page = "landing"

C20_RowsStampedBySecond ==
  \A i \in 1..Len(db.rows) :
    /\ \E t \in 0..now : db.rows[i]["timestamp"] = IsoFormat(t)
    /\ \A j \in 1..Len(db.rows) :
         i < j => SecondOf(db.rows[i]["timestamp"]) <= SecondOf(db.rows[j]["timestamp"])

C20_TwoCommitsTwoRows == []C20_RowsStampedBySecond /\ [][C20_Step]_vars

\* both sessions have committed, a second apart: two rows, two timestamps
C20_Witness ==
  /\ Len(db.rows) = 2
  /\ sess["s1"].last_op = "commit" /\ sess["s2"].last_op = "commit"
  /\ db.rows[1]["respondent_type"] = "Tourist"
  /\ db.rows[2]["respondent_type"] = "Local Resident"
  /\ db.rows[1]["timestamp"] # db.rows[2]["timestamp"]

(***************************************************************************)
(* Writers and readers: the specification SpecA interleaves the script     *)
(* runs of two sessions, each of which walks drafts to the commit (whose   *)
(* ensure_db or INSERT may fail) and reads the store on the admin page.    *)
(***************************************************************************)
VisitA(s) ==
  \/ Load(s)
  \/ StartSurvey(s)
  \/ Step1Next(s, RespondentOf[s])
  \/ Step2Next(s, BagaContext)
  \/ Step3Next(s, CompleteAnswers(s))
  \/ \E fault \in Faults : BoundedSubmit(s, Step4Widgets({}, ""), fault, MaxCommits)
  \/ Cancel(s)
  \/ SidebarAdmin(s)
  \/ AdminLogin(s, ADMIN_USERNAME, ADMIN_PASSWORD)
  \/ AdminBackToLanding(s)

NextA == \E s \in Sessions : VisitA(s)

SpecA == Init /\ [][NextA]_vars

\* the row is complete: every column of the table is written and the
\* required fields of all four steps are answered
CompleteRow(r) ==
  /\ DOMAIN r = CREATE_TABLE_SQL
  /\ \A c \in Columns : r[c] # None
  /\ r["timestamp"] # ""
  /\ Violated(r, 0) \cup Violated(r, 1) \cup Violated(r, 2) \cup Violated(r, 3) = {}

\* C21: in any interleaving of the script runs of two sessions, a run of
\* session s leaves the other session's state (draft included) as it was; a
\* commit of s appends exactly one row, complete and equal to the draft of s
\* with the submitted opinion answers; a commit of s that fails leaves the
\* rows as they were; and the rows an admin page shows are complete rows of
\* the store.
C21_Step(s) ==
  LET a == sess[s]
      b == sess'[s]
  IN /\ a # b => \A o \in Sessions \ {s} : sess'[o] = sess[o]
     /\ CommitBy(s) =>
          /\ Len(db'.rows) = Len(db.rows) + 1
          /\ SubSeq(db'.rows, 1, Len(db.rows)) = db.rows
          /\ CompleteRow(NewRow)
          /\ \A c \in Columns \ (OpinionFields \cup {"timestamp", "priority_suggestion"}) :
               NewRow[c] = a.form[c]
          /\ \A c \in OpinionFields \cup {"priority_suggestion"} :
               NewRow[c] = CaptureSustainability(a.form, Step4Widgets({}, ""))[c]
          /\ NewRow["respondent_type"] = RespondentOf[s]
     /\ (a.last_op # "commit_failed" /\ b.last_op = "commit_failed") =>
          db'.rows = db.rows
     /\ ~CommitBy(s) /\ (\A o \in Sessions \ {s} : ~(sess[o].last_op # "commit" /\ sess'[o].last_op = "commit"))
          => db'.rows = db.rows
     /\ \A i \in 1..Len(b.df) :
          /\ CompleteRow(b.df[i])
          /\ \E j \in 1..Len(db'.rows) : db'.rows[j] = b.df[i]

C21_SessionsAreIsolated == [][\A s \in Sessions : C21_Step(s)]_vars

\* the admin page of s2 shows the row s1 committed, while a later commit of
\* s1 has failed and s1 keeps its draft
C21_Witness ==
  /\ sess["s2"].admin_logged_in /\ Len(sess["s2"].df) = 1
  /\ sess["s2"].df[1]["respondent_type"] = "Tourist"
  /\ sess["s1"].last_op = "commit_failed" /\ sess["s1"].step = 3
  /\ Len(db.rows) = 1

(***************************************************************************)
(* A zone typed, then replaced: under the specification SpecZ step 2 is    *)
(* first submitted with the zone Other, and a listed zone can be submitted *)
(* only over a draft that holds a typed zone (after Back from step 3).     *)
(***************************************************************************)
\* the zones of the selectbox other than Other
ListedZones == {zone_options[i] : i \in 1..(Len(zone_options) - 1)}

\* Other with the text input blank or filled
OtherContexts ==
  { [zone |-> "Other", zone_other |-> t, time_in_area |-> "<1 week",
     age_group |-> None] : t \in {"  ", " North Goa ", "Siolim"} }

\* a listed zone; the text input is not drawn
ListedContexts ==
  { [zone |-> z, zone_other |-> "", time_in_area |-> "many years",
     age_group |-> None] : z \in ListedZones }

\* Next of step 2 with a listed zone, over a draft whose zone was typed
ListedAfterOther(s, w) ==
  /\ sess[s].form["zone"] = "Other" /\ sess[s].form["zone_other_text"] # ""
  /\ Step2Next(s, w)

NextZ ==
  \/ StartSurvey("s1")
  \/ Step1Next("s1", "Tourist")
  \/ \E w \in OtherContexts : Step2Next("s1", w)
  \/ \E w \in ListedContexts : ListedAfterOther("s1", w)
  \/ Step3Next("s1", TouristWidgets({}))
  \/ BoundedSubmit("s1", Step4Widgets({}, ""), "none", MaxCommits)
  \/ Back("s1")
  \/ Cancel("s1")

SpecZ == Init /\ [][NextZ]_vars

\* C22: a stored row has a companion text only if its zone is Other; and a
\* submission of step 2 with a zone other than Other leaves no companion
\* text in the draft, whatever the draft held before, so that the row
\* committed from it has none.
C22_Step(a, b) ==
  /\ \A i \in 1..Len(db'.rows) :
       db'.rows[i]["zone_other_text"] # "" => db'.rows[i]["zone"] = "Other"
  /\ (a.page = "survey" /\ a.step = 1 /\ b.last_op = "advance"
        /\ b.form["zone"] # "Other") => b.form["zone_other_text"] = ""
  /\ CommitBy("s1") =>
       /\ NewRow["zone"] = a.form["zone"]
       /\ NewRow["zone_other_text"] =
            (IF a.form["zone"] = "Other" THEN a.form["zone_other_text"] ELSE "")

C22_CompanionTextOnlyWithOther == [][C22_Step(S1, S1')]_vars

\* a row with a listed zone is stored; under SpecZ its draft held a typed
\* zone before the listed one was submitted
C22_Witness ==
  /\ Len(db.rows) >= 1
  /\ db.rows[1]["zone"] = "Calangute" /\ db.rows[1]["zone_other_text"] = ""
  /\ S1.last_op = "commit"

(***************************************************************************)
(* Captured labels: under the specification SpecN one session walks to     *)
(* steps 3 and 4 as each respondent type and submits every option of every *)
(* selectbox and every ordered selection of every multiselect.             *)
(***************************************************************************)
\* the options of each widget of steps 3 and 4
OptionsOf ==
  [q4_w |-> Q4Options, q5_w |-> Q5Options, q6_w |-> Q6Options, q7_w |-> Q7Options,
   q8_w |-> Q8Options, q9_w |-> Q9Options, q10_w |-> Q10Options,
   q11_w |-> Q11Options, q12_w |-> Q12Options, q13_w |-> Q13Options,
   q14_w |-> Q14Options, q15_w |-> Q15Options, q16_w |-> Q16Options,
   q17_w |-> Q17Options, q18_w |-> Q18Options, q19_w |-> Q19Options,
   q20_w |-> Q20Options, q21_w |-> Q21Options, q22_w |-> Q22Options,
   q23_w |-> Q23Options, q24_w |-> Q24Options, q25_w |-> Q25Options,
   q26_w |-> Q26Options, q27_w |-> Q27Options]

\* the multiselect widgets
MultiKeys == {"q5_w", "q20_w"}

\* the column each widget is captured into
FieldOf ==
  [q4_w |-> "length_of_stay", q5_w |-> "places_visited",
   q6_w |-> "aware_water_stress", q7_w |-> "showers_per_day",
   q8_w |-> "drinking_water", q9_w |-> "tourism_increases_water_demand",
   q10_w |-> "perceived_crowding", q11_w |-> "crowding_reduces_enjoyment",
   q12_w |-> "beach_cleanliness", q13_w |-> "tourism_affects_water_availability",
   q14_w |-> "peak_season_shortages_local", q15_w |-> "tanker_dependency",
   q16_w |-> "water_trend_years", q17_w |-> "benefits_shared_fairly",
   q18_w |-> "peak_season_shortages_staff", q19_w |-> "main_water_source",
   q20_w |-> "water_saving_measures",
   q21_w |-> "tourism_growth_increases_pressure",
   q22_w |-> "peak_season_pressure", q23_w |-> "facilities_stressed",
   q24_w |-> "infra_handles_future_growth", q25_w |-> "biggest_issue",
   q26_w |-> "should_define_limits", q27_w |-> "support_stricter_water_rules"]

\* the widgets step 3 draws for respondent type rt
KeysOf(rt) ==
  IF rt = "Tourist" THEN DOMAIN TouristWidgets({})
  ELSE IF rt = "Local Resident" THEN DOMAIN ResidentWidgets({})
  ELSE IF rt \in StaffTypes THEN DOMAIN StaffWidgets({})
  ELSE IF rt \in WorkerTypes THEN DOMAIN WorkerWidgets({})
  ELSE {}

\* every ordered selection of a multiselect: the options picked, in the
\* order they were picked
Selections(opts) ==
  { q \in UNION { [1..n -> Range(opts)] : n \in 0..Len(opts) } :
      \A i, j \in DOMAIN q : i # j => q[i] # q[j] }

\* what widget k can hold on submit
ValuesOf(k) ==
  IF k \in MultiKeys THEN Selections(OptionsOf[k])
  ELSE {None} \cup Range(OptionsOf[k])

\* step 3 answered with the first option of every widget
FirstAnswers(rt) ==
  [k \in KeysOf(rt) |->
     IF k \in MultiKeys THEN << OptionsOf[k][1] >> ELSE OptionsOf[k][1]]

\* the first answers with one widget set to any of its values
LabelInputs(rt) ==
  { [FirstAnswers(rt) EXCEPT ![k] = v] : <<k, v>> \in
      UNION { {k} \X ValuesOf(k) : k \in KeysOf(rt) } }

\* step 4 with at most one selectbox set, to any of its options
OpinionLabelInputs ==
  { [[q25_w |-> None, q26_w |-> None, q27_w |-> None, q28_w |-> ""]
       EXCEPT ![k] = v] : <<k, v>> \in
      UNION { {k} \X ValuesOf(k) : k \in {"q25_w", "q26_w", "q27_w"} } }

\* Next of step 3 with the widgets of the draft's respondent type
Step3Labels(s) ==
  \E w \in LabelInputs(sess[s].form["respondent_type"]) : Step3Next(s, w)

NextN ==
  \/ StartSurvey("s1")
  \/ \E rt \in Range(RESPONDENT_TYPES) : Step1Next("s1", rt)
  \/ Step2Next("s1", BagaContext)
  \/ Step3Labels("s1")
  \/ \E w \in OpinionLabelInputs : Step4Rejected("s1", w)

SpecN == Init /\ [][NextN]_vars

\* the label-to-token table as the claim C23 gives it: the three tables of
\* length of stay, showers and drinking water, and every other selectbox
\* label lower-cased verbatim; the water source and the items of the
\* multiselects have their own tables
ListedToken(k, label) ==
  CASE k = "q4_w" -> (IF label = "More than 7 days" THEN ">7 days" ELSE label)
    [] k = "q7_w" -> (CASE label = "Once" -> "1"
                        [] label = "Twice" -> "2"
                        [] label = "More than twice" -> ">2")
    [] k = "q8_w" -> (CASE label = "Bottled water" -> "bottled"
                        [] label = "Hotel-provided filtered water" -> "filtered"
                        [] label = "Both" -> "both")
    [] k = "q19_w" -> (CASE label = "Municipal supply" -> "municipal"
                         [] label = "Borewell / groundwater" -> "borewell/groundwater"
                         [] label = "Water tankers" -> "tankers"
                         [] label = "Combination" -> "combination")
    [] k = "q20_w" -> (CASE label = "Towel reuse policy" -> "towel reuse"
                         [] label = "Low-flow fixtures" -> "low-flow fixtures"
                         [] label = "Guest awareness signage" -> "signage"
                         [] label = "None" -> "none")
    [] k = "q5_w" -> label
    [] OTHER -> Lower(label)

\* the table the code follows: as above, but the two qualified "Yes" labels
\* of question 13 lose their comma
StoredToken(k, label) ==
  IF k = "q13_w"
  THEN (CASE label = "Yes, significantly" -> "yes significantly"
          [] label = "Yes, slightly" -> "yes slightly"
          [] label = "No" -> "no")
  ELSE ListedToken(k, label)

\* the string stored for the value v of widget k under the table Tok
TokensJoined(Tok(_, _), k, v) ==
  IF k \in MultiKeys
  THEN (IF Len(v) = 0 THEN "" ELSE Join(", ", [i \in 1..Len(v) |-> Tok(k, v[i])]))
  ELSE IF v = None THEN "" ELSE Tok(k, v)

\* a submission of step 3 or of step 4 stores, for every widget it draws,
\* the string the table Tok gives for the widget's value
CapturedAs(Tok(_, _), a, b) ==
  /\ (a.page = "survey" /\ a.step = 2 /\ b.last_op = "advance") =>
       \A w \in LabelInputs(a.form["respondent_type"]) :
          Step3Next("s1", w) =>
            \A k \in DOMAIN w : b.form[FieldOf[k]] = TokensJoined(Tok, k, w[k])
  /\ (a.page = "survey" /\ a.step = 3 /\ b.last_op = "advance") =>
       \A w \in OpinionLabelInputs :
          Step4Rejected("s1", w) =>
            \A k \in {"q25_w", "q26_w", "q27_w"} :
               b.form[FieldOf[k]] = TokensJoined(Tok, k, w[k])

\* C23 as stated: the captured strings follow the claim's table, in which
\* every yes/no and Likert label is lower-cased verbatim.
C23_LabelsLowerCasedVerbatim == [][CapturedAs(ListedToken, S1, S1')]_vars

\* C23, amended: the captured strings are a function of the selected labels
\* that follows the table in which "More than 7 days" gives ">7 days", the
\* showers give "1", "2", ">2", the drinking water gives "bottled",
\* "filtered", "both", the labels "Yes, significantly" and "Yes, slightly"
\* of question 13 give "yes significantly" and "yes slightly", every other
\* yes/no and Likert label gives itself lower-cased, and a multiselect gives
\* its labels mapped one by one and joined in order with ", ", the empty
\* selection giving the empty string.
C23_CaptureFollowsTokenTable == [][CapturedAs(StoredToken, S1, S1')]_vars

\* a resident draft at step 4 holds the stored token of "Yes, significantly"
C23_Witness ==
  /\ S1.step = 3 /\ S1.last_op = "advance"
  /\ S1.form["respondent_type"] = "Local Resident"
  /\ S1.form["tourism_affects_water_availability"] = "yes significantly"

(***************************************************************************)
(* The admin flag across the wizard.                                       *)
(***************************************************************************)
\* C24: the admin flag of a session is set only by a successful
\* authenticate and cleared only by logout; every other operation (start,
\* advance, back, cancel, commit, navigation) leaves it as it was.
C24_Step(a, b) ==
  /\ (~a.admin_logged_in /\ b.admin_logged_in) => b.last_op = "authenticate"
  /\ (a.admin_logged_in /\ ~b.admin_logged_in) => b.last_op = "logout"

C24_AdminFlagStaysUntilLogout == [][C24_Step(S1, S1')]_vars

(***************************************************************************)
(* The draft behind the step index.                                        *)
(***************************************************************************)
\* C25: in every reachable state the draft satisfies the constraints of
\* every step below the session's step index (the category for index >= 1,
\* zone and time in area for index >= 2, the category's role fields for
\* index 3), and every stored row satisfies the constraints of all four
\* steps for its respondent category.
C25_DraftValidBelowStep ==
  /\ \A k \in 0..2 : k < S1.step => Violated(S1.form, k) = {}
  /\ S1.step > 0 => S1.page = "survey"
  /\ \A i \in 1..Len(db.rows) : \A k \in 0..3 : Violated(db.rows[i], k) = {}

\* the session is at step 4 for the second time: an earlier Submit of step 4
\* was rejected (its suggestion text is in the draft), the respondent went
\* back, and step 3 has just been passed again, as a resident
C25_Witness ==
  /\ S1.page = "survey" /\ S1.step = 3
  /\ S1.last_op = "advance" /\ S1.errors = << >>
  /\ S1.form["priority_suggestion"] # ""
  /\ S1.form["respondent_type"] = "Local Resident"
  /\ S1.form["zone"] = "Other"

====
